---------------------------- MODULE Spec2Model ----------------------------
(***************************************************************************)
(* A model of config.go of the acme command: the account record and the   *)
(* account key kept in the configuration directory.                        *)
(*                                                                         *)
(* The state is the configuration directory with its two files             *)
(* (account.json, account.key) and, for every process using the directory, *)
(* the position inside the function it is executing together with that     *)
(* function's local variables.  Every system call (open, write, close,     *)
(* mkdir, read of a whole file) is one step, so the states between the     *)
(* steps of one operation are states of the model.                         *)
(*                                                                         *)
(* The processes run as the owner of the files; access is decided by the   *)
(* owner bits of the modes.  configDir is a non-empty path.                *)
(***************************************************************************)
EXTENDS Integers, Sequences, FiniteSets, TLC

VARIABLES
    dir,        \* configDir: [kind, mode]
    keyFile,    \* configDir/account.key: [exists, mode, content]
    acctFile,   \* configDir/account.json: [exists, mode, content]
    procs,      \* the processes that use the directory
    pc,         \* pc[p]: where process p is
    local,      \* local[p]: the local variables of the function p executes
    result,     \* result[p]: what the last function p called returned
    genKey,     \* history: the key a successful generating anyKey returned
    lastRec     \* history: the record the account file holds since the last
                \* writeConfig succeeded (NoUC once a later one truncates it)

vars == <<dir, keyFile, acctFile, procs, pc, local, result, genKey, lastRec>>
fs == <<dir, keyFile, acctFile>>

-----------------------------------------------------------------------------
(* Bounds *)

\* rsa.GenerateKey yields one of the keys 1..NKeys.
NKeys == 2

AllProcs == {1, 2}

-----------------------------------------------------------------------------
(* Constants of config.go *)

accountFile == "account.json"
accountKey == "account.key"
rsaPrivateKey == "RSA PRIVATE KEY"
ecPrivateKey == "EC PRIVATE KEY"
x509PublicKey == "CERTIFICATE"

\* A key file created readable by group and others.
KeyPermWorldReadable == 6 * 64 + 4 * 8 + 4

\* The permission arguments of MkdirAll, WriteFile and OpenFile.
DirPerm == 7 * 64
FilePerm == 6 * 64
KeyPerm == 6 * 64

\* Other modes a directory or file found on disk can have.
Mode0755 == 7 * 64 + 5 * 8 + 5
Mode0644 == 6 * 64 + 4 * 8 + 4
Mode0500 == 5 * 64
Mode0000 == 0 * 64

OwnerRead(mode) == (mode \div 256) % 2 = 1
OwnerWrite(mode) == (mode \div 128) % 2 = 1
\* No bit of group or others is set.
OwnerOnly(mode) == mode % 64 = 0

-----------------------------------------------------------------------------
(* Keys, DER and PEM *)

NoKey == [family |-> "nil", id |-> 0]
RSAKey(n) == [family |-> "rsa", id |-> n]
ECKey(n) == [family |-> "ec", id |-> n]
GenKeys == {RSAKey(n) : n \in 1..NKeys}

NoDer == [fmt |-> "none", id |-> 0]
JunkDer == [fmt |-> "junk", id |-> 0]

\* x509.MarshalPKCS1PrivateKey: the PKCS#1 DER bytes of an RSA key.
MarshalPKCS1PrivateKey(k) == [fmt |-> "pkcs1", id |-> k.id]

\* The SEC 1 DER bytes of an EC key (written by other tools, only read here).
MarshalECPrivateKey(k) == [fmt |-> "sec1", id |-> k.id]

\* x509.ParsePKCS1PrivateKey: [key, err].
ParsePKCS1PrivateKey(der) ==
    IF der.fmt = "pkcs1"
    THEN [key |-> RSAKey(der.id), err |-> ""]
    ELSE [key |-> NoKey, err |-> "x509: failed to parse private key"]

\* x509.ParseECPrivateKey: [key, err].
ParseECPrivateKey(der) ==
    IF der.fmt = "sec1"
    THEN [key |-> ECKey(der.id), err |-> ""]
    ELSE [key |-> NoKey, err |-> "x509: failed to parse EC private key"]

\* A PEM file is a sequence of lines: BEGIN <type>, the base64 body, END <type>.
BeginLine(t) == [kind |-> "BEGIN", type |-> t, der |-> NoDer]
BodyLine(d) == [kind |-> "BODY", type |-> "", der |-> d]
EndLine(t) == [kind |-> "END", type |-> t, der |-> NoDer]
\* Bytes never written (a hole left by a write beyond the end of the file).
HoleLine == [kind |-> "HOLE", type |-> "", der |-> NoDer]
\* Text that is no PEM line.
TextLine == [kind |-> "TEXT", type |-> "", der |-> NoDer]

NoBlock == [found |-> FALSE, Type |-> "", Bytes |-> NoDer]

\* pem.Encode writes these lines, one Write call each.
PemLines(block) == <<BeginLine(block.Type), BodyLine(block.Bytes), EndLine(block.Type)>>

BlockAt(b, i) ==
    /\ i + 2 <= Len(b)
    /\ b[i].kind = "BEGIN"
    /\ b[i + 1].kind = "BODY"
    /\ b[i + 2].kind = "END"
    /\ b[i + 2].type = b[i].type

\* pem.Decode: the first well-formed block of b, or none.
Decode(b) ==
    LET starts == {i \in 1..Len(b) : BlockAt(b, i)}
    IN  IF starts = {}
        THEN NoBlock
        ELSE LET i == CHOOSE j \in starts : \A k \in starts : j <= k
             IN  [found |-> TRUE, Type |-> b[i].type, Bytes |-> b[i + 1].der]

-----------------------------------------------------------------------------
(* Files *)

NoFile == [exists |-> FALSE, mode |-> 0, content |-> <<>>]
File(mode, content) == [exists |-> TRUE, mode |-> mode, content |-> content]

NoDir == [kind |-> "absent", mode |-> 0]
Dir(mode) == [kind |-> "dir", mode |-> mode]
\* configDir names a regular file.
NotDir == [kind |-> "file", mode |-> Mode0644]

\* IsNotExist taking every failure of the load for a missing file.
IsNotExistAnyError(e) == e # ""

\* os.IsNotExist
IsNotExist(e) == e = "ENOENT"

\* ioutil.ReadFile of a file in configDir: [data, err].
ReadFile(d, f) ==
    IF d.kind = "absent" THEN [data |-> <<>>, err |-> "ENOENT"]
    ELSE IF d.kind = "file" THEN [data |-> <<>>, err |-> "ENOTDIR"]
    ELSE IF ~f.exists THEN [data |-> <<>>, err |-> "ENOENT"]
    ELSE IF ~OwnerRead(f.mode) THEN [data |-> <<>>, err |-> "EACCES"]
    ELSE [data |-> f.content, err |-> ""]

\* os.OpenFile(path, O_WRONLY|O_CREATE|O_TRUNC, perm) of a file in configDir:
\* [file, err]; perm is used only when the file is created.
OpenFile(d, f, perm) ==
    IF d.kind = "absent" THEN [file |-> f, err |-> "ENOENT"]
    ELSE IF d.kind = "file" THEN [file |-> f, err |-> "ENOTDIR"]
    ELSE IF ~f.exists
         THEN IF OwnerWrite(d.mode)
              THEN [file |-> File(perm, <<>>), err |-> ""]
              ELSE [file |-> f, err |-> "EACCES"]
    ELSE IF ~OwnerWrite(f.mode) THEN [file |-> f, err |-> "EACCES"]
    ELSE [file |-> File(f.mode, <<>>), err |-> ""]

\* WriteAt with a descriptor whose offset never advances.
WriteAtStart(content, off, line) ==
    [i \in 1..(IF Len(content) > 1 THEN Len(content) ELSE 1) |->
        IF i = 1 THEN line ELSE content[i]]

\* A write of one line at offset off (0-based, in lines) through a descriptor.
WriteAt(content, off, line) ==
    LET n == IF Len(content) > off + 1 THEN Len(content) ELSE off + 1
    IN  [i \in 1..n |->
            IF i = off + 1 THEN line
            ELSE IF i <= Len(content) THEN content[i]
            ELSE HoleLine]

\* readKey (config.go 106-123): [key, err].
readKey(d, f) ==
    LET r == ReadFile(d, f)
        blk == Decode(r.data)
    IN  IF r.err # "" THEN [key |-> NoKey, err |-> r.err]
        ELSE IF ~blk.found THEN [key |-> NoKey, err |-> "no block found"]
        ELSE IF blk.Type = rsaPrivateKey THEN ParsePKCS1PrivateKey(blk.Bytes)
        ELSE IF blk.Type = ecPrivateKey THEN ParseECPrivateKey(blk.Bytes)
        ELSE [key |-> NoKey, err |-> "unsupported"]

-----------------------------------------------------------------------------
(* JSON text of a userConfig *)

\* A Go string is a sequence of characters.  BadByte is a byte that is no
\* valid UTF-8 (0xFF); Replacement is the rune U+FFFD, a valid character.
BadByte == "xFF"
Replacement == "uFFFD"

\* encoding/json's encoding of one character inside a string literal.
EscapeChar(c) ==
    CASE c = "\"" -> <<"\\", "\"">>
      [] c = "\\" -> <<"\\", "\\">>
      [] c = "<" -> <<"\\", "u", "0", "0", "3", "c">>
      [] c = BadByte -> <<"\\", "u", "f", "f", "f", "d">>
      [] OTHER -> <<c>>

RECURSIVE EncodeString(_)
\* The characters between the quotes of the JSON string literal of s.
EncodeString(s) ==
    IF s = <<>> THEN <<>> ELSE EscapeChar(Head(s)) \o EncodeString(Tail(s))

\* The rune a \uXXXX escape stands for.
Rune(hex) ==
    CASE hex = <<"0", "0", "3", "c">> -> "<"
      [] hex = <<"f", "f", "f", "d">> -> Replacement
      [] OTHER -> Replacement

RECURSIVE DecodeString(_)
\* encoding/json's decoding of the characters of a string literal.
DecodeString(e) ==
    IF e = <<>> THEN <<>>
    ELSE IF Head(e) = BadByte THEN <<Replacement>> \o DecodeString(Tail(e))
    ELSE IF Head(e) # "\\" \/ Len(e) < 2 THEN <<Head(e)>> \o DecodeString(Tail(e))
    ELSE IF e[2] = "u" /\ Len(e) >= 6
         THEN <<Rune(SubSeq(e, 3, 6))>> \o DecodeString(SubSeq(e, 7, Len(e)))
    ELSE <<e[2]>> \o DecodeString(SubSeq(e, 3, Len(e)))

\* userConfig (config.go 62-68): the fields of acme.Account this file uses,
\* the CA field and the unexported key.
UserConfig(uri, contact, agreed, current, ca, key) ==
    [URI |-> uri, Contact |-> contact, AgreedTerms |-> agreed,
     CurrentTerms |-> current, CA |-> ca, key |-> key]

NoUC == UserConfig(<<>>, <<>>, <<>>, <<>>, <<>>, NoKey)

\* The exported part of a userConfig: all of it but the key.
Exported(uc) == [uc EXCEPT !.key = NoKey]

\* MarshalIndent with the names of the two terms members exchanged.
MarshalIndentSwapped(uc) ==
    <<[kind |-> "json",
       obj |-> [URI |-> EncodeString(uc.URI),
                Contact |-> [i \in 1..Len(uc.Contact) |-> EncodeString(uc.Contact[i])],
                AgreedTerms |-> EncodeString(uc.CurrentTerms),
                CurrentTerms |-> EncodeString(uc.AgreedTerms),
                ca |-> EncodeString(uc.CA)]]>>

\* MarshalIndent with the key field exported: the object gets a key member.
MarshalIndentWithKey(uc) ==
    <<[kind |-> "json",
       obj |-> [URI |-> EncodeString(uc.URI),
                Contact |-> [i \in 1..Len(uc.Contact) |-> EncodeString(uc.Contact[i])],
                AgreedTerms |-> EncodeString(uc.AgreedTerms),
                CurrentTerms |-> EncodeString(uc.CurrentTerms),
                ca |-> EncodeString(uc.CA),
                key |-> uc.key]]>>

\* json.MarshalIndent(uc, "", "  "): one JSON object with a member for every
\* exported field; the unexported key has no member.
MarshalIndent(uc) ==
    <<[kind |-> "json",
       obj |-> [URI |-> EncodeString(uc.URI),
                Contact |-> [i \in 1..Len(uc.Contact) |-> EncodeString(uc.Contact[i])],
                AgreedTerms |-> EncodeString(uc.AgreedTerms),
                CurrentTerms |-> EncodeString(uc.CurrentTerms),
                ca |-> EncodeString(uc.CA)]]>>

\* Text that is no JSON value.
JunkJSON == <<[kind |-> "junk", obj |-> [URI |-> <<>>]]>>

\* json.Unmarshal(b, uc) into a zero userConfig: [uc, err].
Unmarshal(b) ==
    IF b = <<>> THEN [uc |-> NoUC, err |-> "unexpected end of JSON input"]
    ELSE IF b[1].kind # "json" THEN [uc |-> NoUC, err |-> "invalid character"]
    ELSE LET o == b[1].obj
         IN  [uc |-> UserConfig(DecodeString(o.URI),
                                [i \in 1..Len(o.Contact) |-> DecodeString(o.Contact[i])],
                                DecodeString(o.AgreedTerms),
                                DecodeString(o.CurrentTerms),
                                DecodeString(o.ca),
                                NoKey),
              err |-> ""]

\* os.MkdirAll(configDir, perm): [dir, err].
MkdirAll(d, perm) ==
    IF d.kind = "dir" THEN [dir |-> d, err |-> ""]
    ELSE IF d.kind = "file" THEN [dir |-> d, err |-> "ENOTDIR"]
    ELSE [dir |-> Dir(perm), err |-> ""]

-----------------------------------------------------------------------------
(* The account report *)

RECURSIVE Join(_, _)
\* strings.Join
Join(a, sep) ==
    IF a = <<>> THEN <<>>
    ELSE IF Len(a) = 1 THEN a[1]
    ELSE a[1] \o sep \o Join(Tail(a), sep)

No == <<"n", "o">>
Yes == <<"y", "e", "s">>

\* Accepted with the comparison of the two terms made first.
AcceptedCompareFirst(a) ==
    IF a.AgreedTerms = a.CurrentTerms THEN Yes
    ELSE IF a.AgreedTerms = <<>> THEN No
    ELSE a.AgreedTerms

\* The value printAccount prints after "Accepted:" (config.go 186-192).
Accepted(a) ==
    IF a.AgreedTerms = <<>> THEN No
    ELSE IF a.AgreedTerms = a.CurrentTerms THEN Yes
    ELSE a.AgreedTerms

NoReport == [URI |-> <<>>, Key |-> <<>>, Contact |-> <<>>, Terms |-> <<>>, Accepted |-> <<>>]

\* The rows printAccount writes to w (config.go 180-195).
Report(a, kp) ==
    [URI |-> a.URI, Key |-> kp, Contact |-> Join(a.Contact, <<",", " ">>),
     Terms |-> a.CurrentTerms, Accepted |-> Accepted(a)]

-----------------------------------------------------------------------------
(* Inputs and initial states *)

V1 == <<"v", "1">>
V2 == <<"v", "2">>
Mail == <<"m", "@", "x">>
Odd == <<"<", "\"", "\\">>
Bad == <<"a", BadByte>>
CAUrl == <<"c", "a">>

\* The strings the terms fields range over, the empty one included.
Terms == {<<>>, V1, V2}
URIs == {<<>>, Odd, Bad}
Contacts == {<<>>, <<Mail>>, <<Mail, Odd>>}

\* The records of the account specification: the terms fields in every
\* combination, and the strings and contact lists in every combination.
Records ==
    {UserConfig(<<>>, <<>>, a, t, CAUrl, NoKey) : a \in Terms, t \in Terms}
    \cup {UserConfig(u, c, V1, V1, CAUrl, NoKey) : u \in URIs, c \in Contacts}

\* The records of the key specification, with and without a key attached.
StoreRecords ==
    {UserConfig(u, <<Mail>>, V1, V1, CAUrl, k) : u \in {<<>>, Odd}, k \in {NoKey, RSAKey(1)}}

\* The records two racing processes pass.
RaceRecords ==
    {UserConfig(<<>>, c, V1, V1, CAUrl, NoKey) : c \in {<<>>, <<Mail>>}}

KeyPaths == {<<"k">>, <<"a", ".", "k">>}

ValidUTF8(str) == \A i \in 1..Len(str) : str[i] # BadByte
ValidRecord(uc) ==
    /\ ValidUTF8(uc.URI) /\ ValidUTF8(uc.AgreedTerms)
    /\ ValidUTF8(uc.CurrentTerms) /\ ValidUTF8(uc.CA)
    /\ \A i \in 1..Len(uc.Contact) : ValidUTF8(uc.Contact[i])

\* The block of an RSA key under the tag of the other key family.
RSABlockWrongTag(k) == [Type |-> ecPrivateKey, Bytes |-> MarshalPKCS1PrivateKey(k)]

RSABlock(k) == [Type |-> rsaPrivateKey, Bytes |-> MarshalPKCS1PrivateKey(k)]

\* The contents account.key can have before the program first runs.
InitKeyContents ==
    { PemLines(RSABlock(RSAKey(1))),
      PemLines([Type |-> ecPrivateKey, Bytes |-> MarshalECPrivateKey(ECKey(1))]),
      PemLines([Type |-> x509PublicKey, Bytes |-> JunkDer]),
      PemLines([Type |-> rsaPrivateKey, Bytes |-> JunkDer]),
      <<TextLine>>,
      <<>> }

InitKeyFiles ==
    {NoFile, File(Mode0000, <<>>), File(Mode0644, PemLines(RSABlock(RSAKey(1))))}
    \cup {File(KeyPerm, c) : c \in InitKeyContents}

OldDoc == MarshalIndent(UserConfig(<<>>, <<Mail>>, V1, V2, CAUrl, NoKey))

InitAcctFiles ==
    {NoFile, File(Mode0000, <<>>), File(FilePerm, JunkJSON),
     File(FilePerm, OldDoc), File(Mode0644, OldDoc)}

InitDirs == {Dir(DirPerm), Dir(Mode0755), Dir(Mode0500)}

-----------------------------------------------------------------------------
(* Processes *)

Local0 == [gen |-> FALSE, err |-> "", rsaKey |-> NoKey, off |-> 0, uc |-> NoUC, b |-> <<>>]

\* What a call left behind: fn the function, site the line of its return
\* statement, the returned key and error, uc the record passed to it or
\* returned by it (returned only when ucNil is FALSE), kp the key path passed
\* to printAccount and report what printAccount wrote.
Result(fn, site, key, err, ucNil, uc, kp, report) ==
    [fn |-> fn, site |-> site, key |-> key, err |-> err, ucNil |-> ucNil,
     uc |-> uc, kp |-> kp, report |-> report]

NoResult == Result("", 0, NoKey, "", TRUE, NoUC, <<>>, NoReport)
KeyResult(site, key, err) == Result("anyKey", site, key, err, TRUE, NoUC, <<>>, NoReport)
ReadResult(site, ucNil, uc, err) ==
    Result("readConfig", site, NoKey, err, ucNil, uc, <<>>, NoReport)
WriteResult(site, uc, err) ==
    Result("writeConfig", site, NoKey, err, TRUE, uc, <<>>, NoReport)
PrintResult(a, kp, report) == Result("printAccount", 195, NoKey, "", FALSE, a, kp, report)

InitProc ==
    /\ pc = [p \in AllProcs |-> "idle"]
    /\ local = [p \in AllProcs |-> Local0]
    /\ result = [p \in AllProcs |-> NoResult]
    /\ genKey = NoKey
    /\ lastRec = NoUC

InitFS ==
    \/ /\ dir \in {NoDir, NotDir}
       /\ keyFile = NoFile
       /\ acctFile = NoFile
    \/ /\ dir \in InitDirs
       /\ keyFile \in InitKeyFiles
       /\ acctFile \in InitAcctFiles

\* One process owns the configuration directory.
Init == InitFS /\ InitProc /\ procs = {1}

\* One process reads, writes and prints account records.
InitAccount ==
    /\ \/ dir = NoDir /\ keyFile = NoFile /\ acctFile = NoFile
       \/ /\ dir = Dir(DirPerm)
          /\ keyFile \in {NoFile, File(KeyPerm, PemLines(RSABlock(RSAKey(1))))}
          /\ acctFile \in {NoFile, File(FilePerm, JunkJSON), File(Mode0644, OldDoc)}
    /\ InitProc
    /\ procs = {1}

\* One or two processes use the configuration directory.
InitRace ==
    /\ dir \in {NoDir, Dir(DirPerm)}
    /\ keyFile = NoFile
    /\ acctFile = NoFile
    /\ InitProc
    /\ procs \in {{1}, {1, 2}}

Call(p, label, loc) ==
    /\ p \in procs
    /\ pc[p] = "idle"
    /\ pc' = [pc EXCEPT ![p] = label]
    /\ local' = [local EXCEPT ![p] = loc]
    /\ result' = [result EXCEPT ![p] = NoResult]

Return(p, res) ==
    /\ pc' = [pc EXCEPT ![p] = "idle"]
    /\ local' = [local EXCEPT ![p] = Local0]
    /\ result' = [result EXCEPT ![p] = res]

Goto(p, label, loc) ==
    /\ pc' = [pc EXCEPT ![p] = label]
    /\ local' = [local EXCEPT ![p] = loc]
    /\ UNCHANGED result

-----------------------------------------------------------------------------
(* anyKey and writeKey *)

\* anyKey(filename, gen) is called.
anyKeyCall(p, gen) ==
    /\ Call(p, "anyKey160", [Local0 EXCEPT !.gen = gen])
    /\ UNCHANGED <<fs, procs, genKey, lastRec>>

\* Lines 160-166: readKey, and the decision to return or generate.
anyKeyRead(p) ==
    /\ pc[p] = "anyKey160"
    /\ LET r == readKey(dir, keyFile)
       IN  IF r.err = ""
           THEN Return(p, KeyResult(162, r.key, ""))
           ELSE IF ~IsNotExist(r.err) \/ ~local[p].gen
           THEN Return(p, KeyResult(165, NoKey, r.err))
           ELSE Goto(p, "anyKey167", [local[p] EXCEPT !.err = r.err])
    /\ UNCHANGED <<fs, procs, genKey, lastRec>>

\* Lines 167-170: rsa.GenerateKey yields a fresh key or fails.
anyKeyGenerate(p) ==
    /\ pc[p] = "anyKey167"
    /\ \/ \E k \in GenKeys :
            Goto(p, "writeKey143", [local[p] EXCEPT !.rsaKey = k, !.err = ""])
       \/ Return(p, KeyResult(169, NoKey, "rand: read failed"))
    /\ UNCHANGED <<fs, procs, genKey, lastRec>>

\* Lines 143-146 and 171: os.OpenFile creates or truncates the key file; on
\* failure anyKey returns rsaKey together with the error.
writeKeyOpen(p) ==
    /\ pc[p] = "writeKey143"
    /\ LET o == OpenFile(dir, keyFile, KeyPerm)
       IN  IF o.err # ""
           THEN /\ Return(p, KeyResult(171, local[p].rsaKey, o.err))
                /\ UNCHANGED keyFile
           ELSE /\ keyFile' = o.file
                /\ Goto(p, "writeKey149", [local[p] EXCEPT !.off = 0])
    /\ UNCHANGED <<dir, acctFile, procs, genKey, lastRec>>

\* Lines 147-152 and 171: pem.Encode writes the next line of the block at the
\* descriptor's offset, or the write fails and the file keeps what it holds.
writeKeyEncode(p) ==
    /\ pc[p] = "writeKey149"
    /\ LET lines == PemLines(RSABlock(local[p].rsaKey))
           off == local[p].off
       IN  \/ /\ keyFile' = [keyFile EXCEPT !.content = WriteAt(@, off, lines[off + 1])]
              /\ Goto(p, IF off + 1 = Len(lines) THEN "writeKey153" ELSE "writeKey149",
                      [local[p] EXCEPT !.off = off + 1])
           \/ /\ Return(p, KeyResult(171, local[p].rsaKey, "write failed"))
              /\ UNCHANGED keyFile
    /\ UNCHANGED <<dir, acctFile, procs, lastRec, genKey>>

\* Lines 153 and 171: f.Close succeeds or fails; anyKey returns rsaKey and
\* the error of writeKey.
writeKeyClose(p) ==
    /\ pc[p] = "writeKey153"
    /\ \/ /\ Return(p, KeyResult(171, local[p].rsaKey, ""))
          /\ genKey' = local[p].rsaKey
       \/ /\ Return(p, KeyResult(171, local[p].rsaKey, "close failed"))
          /\ UNCHANGED genKey
    /\ UNCHANGED <<fs, procs, lastRec>>

-----------------------------------------------------------------------------
(* readConfig and writeConfig *)

readConfigCall(p) ==
    /\ Call(p, "readConfig75", Local0)
    /\ UNCHANGED <<fs, procs, genKey, lastRec>>

\* Lines 75-82: read and parse the account file.
readConfigRead(p) ==
    /\ pc[p] = "readConfig75"
    /\ LET r == ReadFile(dir, acctFile)
           u == Unmarshal(r.data)
       IN  IF r.err # "" THEN Return(p, ReadResult(77, TRUE, NoUC, r.err))
           ELSE IF u.err # "" THEN Return(p, ReadResult(81, TRUE, NoUC, u.err))
           ELSE Goto(p, "readConfig83", [local[p] EXCEPT !.uc = u.uc])
    /\ UNCHANGED <<fs, procs, genKey, lastRec>>

\* readConfig failing when the key does not load.
readConfigKeyStrict(p) ==
    /\ pc[p] = "readConfig83"
    /\ LET r == readKey(dir, keyFile)
       IN  IF r.err = ""
           THEN Return(p, ReadResult(86, FALSE, [local[p].uc EXCEPT !.key = r.key], ""))
           ELSE Return(p, ReadResult(86, TRUE, NoUC, r.err))
    /\ UNCHANGED <<fs, procs, genKey, lastRec>>

\* Lines 83-86: attach the key when readKey succeeds.
readConfigKey(p) ==
    /\ pc[p] = "readConfig83"
    /\ LET r == readKey(dir, keyFile)
           uc == IF r.err = "" THEN [local[p].uc EXCEPT !.key = r.key] ELSE local[p].uc
       IN  Return(p, ReadResult(86, FALSE, uc, ""))
    /\ UNCHANGED <<fs, procs, genKey, lastRec>>

\* Lines 94-97: writeConfig(uc) is called and marshals uc; MarshalIndent
\* cannot fail on a userConfig.
writeConfigCall(p, uc) ==
    /\ Call(p, "writeConfig98", [Local0 EXCEPT !.uc = uc, !.b = MarshalIndent(uc)])
    /\ UNCHANGED <<fs, procs, genKey, lastRec>>

\* Lines 98-100: os.MkdirAll(configDir, 0700).
writeConfigMkdir(p) ==
    /\ pc[p] = "writeConfig98"
    /\ LET m == MkdirAll(dir, DirPerm)
       IN  IF m.err # ""
           THEN /\ Return(p, WriteResult(99, local[p].uc, m.err))
                /\ UNCHANGED dir
           ELSE /\ dir' = m.dir
                /\ Goto(p, "writeFileOpen", local[p])
    /\ UNCHANGED <<keyFile, acctFile, procs, genKey, lastRec>>

\* Line 101, ioutil.WriteFile: os.OpenFile creates or truncates the file.
writeFileOpen(p) ==
    /\ pc[p] = "writeFileOpen"
    /\ LET o == OpenFile(dir, acctFile, FilePerm)
       IN  IF o.err # ""
           THEN /\ Return(p, WriteResult(101, local[p].uc, o.err))
                /\ UNCHANGED <<acctFile, lastRec>>
           ELSE /\ acctFile' = o.file
                /\ lastRec' = NoUC
                /\ Goto(p, "writeFileWrite", local[p])
    /\ UNCHANGED <<dir, keyFile, procs, genKey>>

\* Line 101, ioutil.WriteFile: one Write of all the data, then Close; either
\* can fail.
writeFileWrite(p) ==
    /\ pc[p] = "writeFileWrite"
    /\ \/ /\ acctFile' = [acctFile EXCEPT !.content = local[p].b]
          /\ \/ /\ Return(p, WriteResult(101, local[p].uc, ""))
                /\ lastRec' = local[p].uc
             \/ /\ Return(p, WriteResult(101, local[p].uc, "close failed"))
                /\ UNCHANGED lastRec
       \/ /\ Return(p, WriteResult(101, local[p].uc, "write failed"))
          /\ UNCHANGED <<acctFile, lastRec>>
    /\ UNCHANGED <<dir, keyFile, procs, genKey>>

-----------------------------------------------------------------------------
(* printAccount *)

\* printAccount(w, a, kp) writes the report to w.
printAccount(p, a, kp) ==
    /\ p \in procs
    /\ pc[p] = "idle"
    /\ result' = [result EXCEPT ![p] = PrintResult(a, kp, Report(a, kp))]
    /\ UNCHANGED <<fs, procs, pc, local, genKey, lastRec>>

-----------------------------------------------------------------------------
(* Specifications *)

StepKey(p) ==
    \/ anyKeyRead(p)
    \/ anyKeyGenerate(p)
    \/ writeKeyOpen(p)
    \/ writeKeyEncode(p)
    \/ writeKeyClose(p)

StepConfig(p) ==
    \/ readConfigRead(p)
    \/ readConfigKey(p)
    \/ writeConfigMkdir(p)
    \/ writeFileOpen(p)
    \/ writeFileWrite(p)

Next ==
    \E p \in AllProcs :
        \/ \E gen \in BOOLEAN : anyKeyCall(p, gen)
        \/ readConfigCall(p)
        \/ \E uc \in StoreRecords : writeConfigCall(p, uc)
        \/ StepKey(p)
        \/ StepConfig(p)

NextAccount ==
    \E p \in AllProcs :
        \/ readConfigCall(p)
        \/ \E uc \in Records : writeConfigCall(p, uc)
        \/ \E a \in Records, kp \in KeyPaths : printAccount(p, a, kp)
        \/ StepConfig(p)

NextRace ==
    \E p \in AllProcs :
        \/ anyKeyCall(p, TRUE)
        \/ readConfigCall(p)
        \/ \E uc \in RaceRecords : writeConfigCall(p, uc)
        \/ StepKey(p)
        \/ StepConfig(p)

\* The key store and the account store used by one process.
Spec == Init /\ [][Next]_vars

\* The account store and the report, over the larger set of records.
SpecAccount == InitAccount /\ [][NextAccount]_vars

\* One or two processes on a directory that holds no file yet.
SpecRace == InitRace /\ [][NextRace]_vars

-----------------------------------------------------------------------------
(* Claims about the key store *)

KeyLabels == {"anyKey160", "anyKey167", "writeKey143", "writeKey149", "writeKey153"}
GenLabels == {"anyKey167", "writeKey143", "writeKey149", "writeKey153"}
ReadLabels == {"readConfig75", "readConfig83"}
WriteLabels == {"writeConfig98", "writeFileOpen", "writeFileWrite"}

\* No file is at the key path.
KeyFileMissing == dir.kind = "absent" \/ (dir.kind = "dir" /\ ~keyFile.exists)

\* The key file holds exactly the encoding of k, with the mode of a created file.
HoldsKey(k) == keyFile = File(KeyPerm, PemLines([Type |-> rsaPrivateKey,
                                                   Bytes |-> MarshalPKCS1PrivateKey(k)]))

\* C1: when anyKey(path, true) generated a key and writing it failed, the
\* caller receives the write error and no key.
C1_WriteFailureReturnsNoKey ==
    \A p \in procs :
        (result[p].fn = "anyKey" /\ result[p].site = 171 /\ result[p].err # "")
            => result[p].key = NoKey

\* C2: anyKey generates and writes only when the load failed because the file
\* does not exist and gen is true; a missing file with gen false returns the
\* not-found error, any other load failure is returned unchanged, a loaded key
\* is returned, and in all these cases no file or directory changes.
C2_GenerateOnlyWhenMissing ==
    [][\A p \in procs :
        /\ pc[p] = "anyKey160" =>
            LET r == readKey(dir, keyFile)
            IN  /\ fs' = fs
                /\ (pc'[p] = "anyKey167") <=> (KeyFileMissing /\ local[p].gen)
                /\ pc'[p] \in {"anyKey167", "idle"}
                /\ (KeyFileMissing /\ ~local[p].gen)
                      => result'[p] = KeyResult(165, NoKey, "ENOENT")
                /\ (~KeyFileMissing /\ r.err # "")
                      => result'[p] = KeyResult(165, NoKey, r.err)
                /\ r.err = "" => result'[p] = KeyResult(162, r.key, "")
        /\ pc'[p] \in GenLabels => pc[p] \in GenLabels \cup {"anyKey160"}
        /\ pc[p] \in GenLabels => local[p].gen
        /\ (pc[p] \in KeyLabels /\ fs' # fs)
              => pc[p] \in {"writeKey143", "writeKey149"}
      ]_vars

\* C2 witness: anyKey(path, false) on a missing file returned the not-found
\* error and no file was created.
C2_Witness ==
    /\ result[1] = KeyResult(165, NoKey, "ENOENT")
    /\ dir.kind = "dir"
    /\ ~keyFile.exists

\* C3: once anyKey(path, true) generated a key, wrote it and returned it, the
\* file holds that key unchanged, no later call generates, and every later
\* anyKey returns that key, loaded from the file.
C3_SecondCallLoadsSameKey ==
    genKey # NoKey =>
        /\ HoldsKey(genKey)
        /\ \A p \in procs :
            /\ pc[p] \notin GenLabels
            /\ result[p].fn = "anyKey" =>
                  \/ result[p] = KeyResult(171, genKey, "")
                  \/ result[p] = KeyResult(162, genKey, "")

\* C3 witness: a call after the generating one returned the generated key
\* from the load path.
C3_Witness ==
    /\ genKey # NoKey
    /\ result[1] = KeyResult(162, genKey, "")

\* C4: readConfig fails exactly when the account file cannot be read or does
\* not parse; a key that does not load leaves the record without a key, a key
\* that loads is attached; readConfig changes no file and generates nothing.
C4_ReadConfigKeyOptional ==
    /\ [](\A p \in procs :
            result[p].fn = "readConfig" =>
                LET r == ReadFile(dir, acctFile)
                    u == Unmarshal(r.data)
                    k == readKey(dir, keyFile)
                IN  /\ (result[p].err # "") <=> (r.err # "" \/ u.err # "")
                    /\ result[p].err # "" => result[p].ucNil
                    /\ result[p].err = "" =>
                          /\ ~result[p].ucNil
                          /\ Exported(result[p].uc) = u.uc
                          /\ result[p].uc.key = IF k.err = "" THEN k.key ELSE NoKey)
    /\ [][\A p \in procs :
            pc[p] \in ReadLabels => fs' = fs /\ pc'[p] \in ReadLabels \cup {"idle"}
         ]_vars

\* C4 witness: readConfig returned a record without a key although a key
\* file exists (its bytes do not parse).
C4_Witness ==
    /\ result[1].fn = "readConfig"
    /\ result[1].err = ""
    /\ ~result[1].ucNil
    /\ result[1].uc.key = NoKey
    /\ keyFile.exists
    /\ readKey(dir, keyFile).err = "x509: failed to parse private key"

\* The members of the JSON object of a userConfig.
ExportedMembers == {"URI", "Contact", "AgreedTerms", "CurrentTerms", "ca"}

\* No element of the account file's content carries anything but the
\* exported members.
KeyFree(content) ==
    \A i \in 1..Len(content) :
        content[i].kind = "json" => DOMAIN content[i].obj = ExportedMembers

\* C6: no step of writeConfig changes the key file, whether or not the record
\* carries a key, and what it writes to the account file has no member for
\* the key; no step of anyKey changes the account file.
C6_KeyNeverWrittenByWriteConfig ==
    [][\A p \in procs :
        /\ (pc[p] \in WriteLabels \/ pc'[p] \in WriteLabels) => keyFile' = keyFile
        /\ (pc[p] \in WriteLabels /\ acctFile' # acctFile) => KeyFree(acctFile'.content)
        /\ pc'[p] \in WriteLabels => KeyFree(local'[p].b)
        /\ (pc[p] \in KeyLabels \/ pc'[p] \in KeyLabels) => acctFile' = acctFile
      ]_vars

\* C6 witness: writeConfig succeeded for a record with a key attached while a
\* key file holding another key exists.
C6_Witness ==
    /\ result[1].fn = "writeConfig"
    /\ result[1].err = ""
    /\ result[1].uc.key = RSAKey(1)
    /\ acctFile.content = MarshalIndent(result[1].uc)
    /\ genKey = RSAKey(2)
    /\ HoldsKey(RSAKey(2))

\* C7: every step that writes the key file or the account file leaves it
\* with mode 0600, also when writeConfig replaces an account file that
\* existed; a directory writeConfig creates has mode 0700; the mode is set by
\* the creating step and by no later step; MkdirAll on an existing directory
\* succeeds.
C7_WrittenFilesOwnerOnly ==
    [][\A p \in procs :
        /\ keyFile' # keyFile => keyFile'.exists /\ keyFile'.mode = KeyPerm
        /\ acctFile' # acctFile => acctFile'.exists /\ acctFile'.mode = FilePerm
        /\ dir' # dir => dir.kind = "absent" /\ dir' = Dir(DirPerm)
        /\ (pc[p] = "writeConfig98" /\ dir.kind = "dir")
              => dir' = dir /\ pc'[p] = "writeFileOpen"
      ]_vars

\* C7 as amended: a step that creates the key file or the account file
\* creates it with mode 0600 and a created directory has mode 0700, in the
\* creating step itself; a step that writes a file that exists keeps its
\* mode, so a replaced account file keeps the mode it had; anyKey only ever
\* opens a key file that does not exist; MkdirAll on an existing directory
\* succeeds.
C7_CreatedFilesOwnerOnly ==
    [][\A p \in procs :
        /\ keyFile' # keyFile =>
              /\ keyFile'.exists
              /\ keyFile'.mode = IF keyFile.exists THEN keyFile.mode ELSE KeyPerm
              /\ OwnerOnly(keyFile'.mode)
        /\ (pc[p] = "writeKey143" /\ pc'[p] = "writeKey149") => ~keyFile.exists
        /\ acctFile' # acctFile =>
              /\ acctFile'.exists
              /\ acctFile'.mode = IF acctFile.exists THEN acctFile.mode ELSE FilePerm
              /\ ~acctFile.exists => OwnerOnly(acctFile'.mode)
        /\ dir' # dir => dir.kind = "absent" /\ dir' = Dir(DirPerm) /\ OwnerOnly(dir'.mode)
        /\ (pc[p] = "writeConfig98" /\ dir.kind = "dir")
              => dir' = dir /\ pc'[p] = "writeFileOpen"
      ]_vars

\* C7 witness: writeConfig replaced an account file of mode 0644, which still
\* has that mode and now holds the record written.
C7_Witness ==
    /\ acctFile.exists
    /\ acctFile.mode = Mode0644
    /\ lastRec # NoUC
    /\ acctFile.content = MarshalIndent(lastRec)
    /\ acctFile.content # OldDoc

\* C10: after anyKey(path, true) took the generating path, either it
\* succeeded and the file holds the complete encoding of the returned key, or
\* it failed and no file is at path.
C10_GenerateAllOrNothing ==
    \A p \in procs :
        (result[p].fn = "anyKey" /\ result[p].site \in {169, 171}) =>
            IF result[p].err = ""
            THEN HoldsKey(result[p].key)
            ELSE KeyFileMissing

-----------------------------------------------------------------------------
(* Claims about the account store and the report *)

\* C5: a readConfig after a successful writeConfig(r) succeeds and returns a
\* record equal to r in every field but the key, for every record r; after
\* several writeConfig calls it is the record of the last one.
C5_RoundTripAnyRecord ==
    \A p \in procs :
        (result[p].fn = "readConfig" /\ lastRec # NoUC) =>
            /\ result[p].err = ""
            /\ ~result[p].ucNil
            /\ Exported(result[p].uc) = Exported(lastRec)

\* C5 as amended: the same for every record r whose strings are valid UTF-8.
C5_RoundTripValidUTF8 ==
    \A p \in procs :
        (result[p].fn = "readConfig" /\ lastRec # NoUC /\ ValidRecord(lastRec)) =>
            /\ result[p].err = ""
            /\ ~result[p].ucNil
            /\ Exported(result[p].uc) = Exported(lastRec)

\* C5 witness: readConfig returned the record last written, whose strings
\* hold characters that JSON escapes, over an account file that held another
\* record before.
C5_Witness ==
    /\ result[1].fn = "readConfig"
    /\ lastRec = UserConfig(Odd, <<Mail, Odd>>, V1, V1, CAUrl, NoKey)
    /\ Exported(result[1].uc) = lastRec
    /\ acctFile.mode = Mode0644

\* C8: the acceptance indicator printAccount prints is "no" when AgreedTerms
\* is empty (also when CurrentTerms is empty too), "yes" when it is non-empty
\* and equals CurrentTerms, and AgreedTerms itself otherwise; the key path
\* printed is the one passed in; printAccount changes no file.
C8_AcceptanceIndicator ==
    /\ [](\A p \in procs :
            result[p].fn = "printAccount" =>
                LET a == result[p].uc
                    shown == result[p].report.Accepted
                IN  /\ a.AgreedTerms = <<>> => shown = <<"n", "o">>
                    /\ (a.AgreedTerms # <<>> /\ a.AgreedTerms = a.CurrentTerms)
                          => shown = <<"y", "e", "s">>
                    /\ (a.AgreedTerms # <<>> /\ a.AgreedTerms # a.CurrentTerms)
                          => shown = a.AgreedTerms
                    /\ result[p].report.Key = result[p].kp)
    /\ [][\A p \in procs :
            (result'[p].fn = "printAccount" /\ result'[p] # result[p])
                => fs' = fs /\ pc' = pc
         ]_vars

\* C8 witness: for AgreedTerms "v1" and CurrentTerms "v2" the indicator is
\* the literal "v1".
C8_Witness ==
    /\ result[1].fn = "printAccount"
    /\ result[1].uc.AgreedTerms = V1
    /\ result[1].uc.CurrentTerms = V2
    /\ result[1].report.Accepted = V1
    /\ acctFile.exists

-----------------------------------------------------------------------------
(* Claims about processes racing on one directory *)

\* p was returned a generated key as written, and the file does not hold it.
LostKey(p) ==
    /\ result[p].fn = "anyKey"
    /\ result[p].site = 171
    /\ result[p].err = ""
    /\ readKey(dir, keyFile) # [key |-> result[p].key, err |-> ""]

\* p was told its record is written, and the file does not hold it.
LostRecord(p) ==
    /\ result[p].fn = "writeConfig"
    /\ result[p].err = ""
    /\ Unmarshal(ReadFile(dir, acctFile).data) # [uc |-> Exported(result[p].uc), err |-> ""]

\* C9: with a single process, no caller holds a generated key or a written
\* record that the file does not hold; with two processes that state is
\* reached (the witness).
C9_SingleProcessLosesNothing ==
    Cardinality(procs) = 1 => \A p \in procs : ~LostKey(p) /\ ~LostRecord(p)

\* C9 witness: two interleaved anyKey calls both generated and both returned
\* their key as written; the file holds only the key of the second.
C9_Witness ==
    /\ procs = {1, 2}
    /\ result[1] = KeyResult(171, RSAKey(1), "")
    /\ result[2] = KeyResult(171, RSAKey(2), "")
    /\ HoldsKey(RSAKey(2))
    /\ LostKey(1)

\* Two interleaved writeConfig calls both succeeded; the file holds only the
\* record of one of them.
C9_AccountRace ==
    /\ procs = {1, 2}
    /\ LostRecord(1)
    /\ result[2].fn = "writeConfig"
    /\ result[2].err = ""
    /\ ~LostRecord(2)

=============================================================================
